---- MODULE Spec2Model ----
(***************************************************************************)
(* Session state machine of the AI tour planner.                           *)
(*   variant 1 : src/TOUR.py   (chat only)                                 *)
(*   variant 2 : src/tour1.py  (chat, trip statistics, save/load/export)   *)
(* A text is a sequence of tokens; string concatenation is \o.              *)
(***************************************************************************)
EXTENDS Integers, Sequences, FiniteSets, TLC

(* ------------------------------ bounds --------------------------------- *)
\* chunks the remote stream delivers in one call, at most
MaxChunks == 2
\* records the Conversation Store may hold before follow-ups stop
MaxRecords == 4
\* saved snapshots, at most
MaxSaved == 1
\* generations that pass validation in one variant-2 session, at most
MaxTrips == 1

(* ------------------------------ inputs --------------------------------- *)
None == [None |-> TRUE]

Models == {"gemini-2.0-flash", "None"}

Destinations == {"", "Paris", "Tokyo"}
DurationChoices == {12}
Styles == {"Balanced"}
Budgets == {"Luxury"}
TravelerChoices == {2}
Accommodations == {"Hotels"}
AdditionalPrefs == {""}

\* variant 1: interests is the text of a text area
InterestTexts == {"", "museums"}
\* variant 2: interests is a list of multiselect options "<emoji> <name>"
OptCulture == <<"#culture", " ", "Local", " ", "Culture">>
OptBeaches == <<"#beach", " ", "Beaches">>
InterestLists == {<<>>, <<OptBeaches, OptCulture>>}

\* follow-up messages typed in the chat input (always truthy); the user
\* types what a quick action would send
Queries == {<<"Create packing list">>}
\* quick actions: (display_text, action_text), the action text is sent
quick_actions == {<<"Create packing list">>}

\* what the remote stream can deliver: the j-th chunk that carries text
\* carries a payload of its own
Payload == <<"f1", "f2", "f3", "f4", "f5">>
ChunkTexts(j) == {<<Payload[j]>>}
Errors == {"quota exceeded"}
Timestamps == {"2025-01-01 00:00:00"}

\* the widget values at the click: variant 1 has four fields, variant 2 eight
Forms(v) ==
    IF v = 1
    THEN [destination : Destinations, duration : DurationChoices,
          interests : InterestTexts, style : Styles]
    ELSE [destination : Destinations, duration : DurationChoices,
          interests : InterestLists, style : Styles, budget : Budgets,
          travelers : TravelerChoices, accommodation : Accommodations,
          additional_prefs : AdditionalPrefs]

(* --------------------------- pure helpers ------------------------------ *)
Digit == <<"0", "1", "2", "3", "4", "5", "6", "7", "8", "9">>

\* str(n) as formatted by an f-string, n in 0..99
IntToStr(n) ==
    IF n < 10 THEN <<Digit[n + 1]>>
    ELSE <<Digit[(n \div 10) + 1], Digit[(n % 10) + 1]>>

\* s is a contiguous part of text t
Contains(t, s) ==
    \E i \in 0..(Len(t) - Len(s)) : SubSeq(t, i + 1, i + Len(s)) = s

\* interest.split(" ", 1)[1] if " " in interest else interest
RECURSIVE AfterFirstSpace(_)
AfterFirstSpace(s) ==
    IF s = <<>> THEN <<>>
    ELSE IF Head(s) = " " THEN Tail(s) ELSE AfterFirstSpace(Tail(s))

CleanInterest(interest) ==
    IF \E i \in 1..Len(interest) : interest[i] = " "
    THEN AfterFirstSpace(interest) ELSE interest

\* ", ".join(clean_interests)
RECURSIVE JoinComma(_)
JoinComma(l) ==
    IF l = <<>> THEN <<>>
    ELSE IF Len(l) = 1 THEN CleanInterest(l[1])
    ELSE CleanInterest(l[1]) \o <<", ">> \o JoinComma(Tail(l))

\* the prompt the model receives, variant 1
ModelPrompt1(f) ==
    <<"Plan a ">> \o IntToStr(f.duration) \o
    <<"-day trip to ", f.destination, " for a traveler with interests in ",
      f.interests, " and a ", f.style,
      " travel style. Create a detailed, day-by-day itinerary.">>

\* the prompt the model receives, variant 2
ModelPrompt2(f) ==
    <<"Plan a comprehensive ">> \o IntToStr(f.duration) \o
    <<"-day trip to ", f.destination, " for ">> \o IntToStr(f.travelers) \o
    <<" traveler(s) with a ", f.budget, " budget. Travel Interests: ">> \o
    JoinComma(f.interests) \o
    <<" Travel Style: ", f.style, " Accommodation Preference: ",
      f.accommodation, " Additional Preferences: ",
      IF f.additional_prefs # "" THEN f.additional_prefs ELSE "None",
      " Create a detailed day-by-day itinerary">>

UserRecord(text) == [role |-> "user", parts |-> <<text>>]
ModelRecord(text) == [role |-> "model", parts |-> <<text>>]

\* fault: the turn is inserted at the head of the store
CommitTurnFront(store, q, text) ==
    <<UserRecord(q), ModelRecord(text)>> \o store

\* fault: the reply is stored before the message it answers
CommitTurnModelFirst(store, q, text) ==
    Append(Append(store, ModelRecord(text)), UserRecord(q))

\* the two records a completed turn appends, in order
CommitTurn(store, q, text) ==
    Append(Append(store, UserRecord(q)), ModelRecord(text))

\* fault: the chunk is put in front of the text gathered so far
AccumulatePrepend(full, chunk_text) == chunk_text \o full

\* full_response_text += chunk_text
Accumulate(full, chunk_text) == full \o chunk_text

NotInitialized(v) ==
    IF v = 1 THEN <<"Error: Gemini model is not initialized. Please check your API key.">>
    ELSE <<"#x Error: Gemini model is not initialized. Please check your API key.">>

Diagnostic(e) == <<"Sorry, I encountered an error: ", e>>

\* fault: no .copy(): the snapshots at these positions hold the very list
\* object that is the active store
ListAlias(positions) == positions

\* list.copy() makes a new list object: of the snapshots at these positions,
\* those that hold the same list object as the active store
ListCopy(positions) == {}

\* chat_history.append(...) twice, as seen through a snapshot that holds the
\* same list object as the active store
AppendInPlace(saved, aliases, q, text) ==
    [i \in 1..Len(saved) |->
        IF i \in aliases
        THEN [saved[i] EXCEPT !.chat_history = CommitTurn(@, q, text)]
        ELSE saved[i]]

\* fault: an index past either end is clamped to the last element
PyIndexClamped(l, index) ==
    IF index >= Len(l) \/ index < -Len(l) THEN Len(l)
    ELSE IF index < 0 THEN Len(l) + index + 1 ELSE index + 1

\* Python list indexing l[index]: the 1-based position, or 0 for IndexError
PyIndex(l, index) ==
    IF index >= Len(l) \/ index < -Len(l) THEN 0
    ELSE IF index < 0 THEN Len(l) + index + 1 ELSE index + 1

(* ------------------------------ state ---------------------------------- *)
VARIABLES
    variant,              \* 1 = TOUR.py, 2 = tour1.py
    model,                \* the configured model, or "None" without a key
    chat_history,         \* st.session_state.chat_history
    saved_itineraries,    \* st.session_state.saved_itineraries (variant 2)
    current_trip,         \* st.session_state.current_trip (variant 2)
    trip_stats,           \* st.session_state.trip_stats (variant 2)
    export_data,          \* the document offered by the download button
    pc,                   \* "idle", or "streaming" while a reply is drained
    question,             \* get_gemini_response: argument
    history,              \* get_gemini_response: argument chat_history
    full_response_text,   \* get_gemini_response: local
    yielded,              \* fragments the generator has yielded, in order
    nchunks,              \* chunks received from the remote stream
    contacted,            \* the remote endpoint was called in this call
    op,                   \* handler of the current script run
    result,               \* how that run ended
    submitted,            \* the form submitted to the generate handler
    load_index,           \* the index given to load_saved_itinerary
    entry_stats,          \* trip_stats when the current run began
    entry_len,            \* length of the store when the current run began
    store_at_call,        \* the store when get_gemini_response was called
    at_save,              \* per snapshot: the active trip and store at save
    shared                \* snapshots whose list object is the active store

vars == <<variant, model, chat_history, saved_itineraries, current_trip,
          trip_stats, export_data, pc, question, history,
          full_response_text, yielded, nchunks, contacted, op, result,
          submitted, load_index, entry_stats, entry_len, store_at_call,
          at_save, shared>>

Init ==
    /\ variant \in {1, 2}
    /\ model \in Models
    /\ chat_history = <<>>
    /\ saved_itineraries = <<>>
    /\ current_trip = None
    /\ trip_stats = [total_trips |-> 0, total_days |-> 0, destinations |-> <<>>]
    /\ export_data = None
    /\ pc = "idle"
    /\ question = <<>>
    /\ history = <<>>
    /\ full_response_text = <<>>
    /\ yielded = <<>>
    /\ nchunks = 0
    /\ contacted = FALSE
    /\ op = "start"
    /\ result = "none"
    /\ submitted = None
    /\ load_index = 0
    /\ entry_stats = [total_trips |-> 0, total_days |-> 0,
                      destinations |-> <<>>]
    /\ entry_len = 0
    /\ store_at_call = <<>>
    /\ at_save = <<>>
    /\ shared = {}

\* a new script run: the previous run's locals are gone
NewRun(name) ==
    /\ pc = "idle"
    /\ op' = name
    /\ entry_stats' = trip_stats
    /\ entry_len' = Len(chat_history)
    /\ UNCHANGED <<variant, model>>

NoCall ==
    /\ question' = <<>>
    /\ history' = <<>>
    /\ full_response_text' = <<>>
    /\ yielded' = <<>>
    /\ nchunks' = 0
    /\ contacted' = FALSE
    /\ store_at_call' = <<>>
    /\ pc' = "idle"

(* ---------------------------- Model Gateway ---------------------------- *)
\* fault: the "if not model" guard is missing
get_gemini_response_unguarded(q, h) ==
    /\ question' = q
    /\ history' = h
    /\ full_response_text' = <<>>
    /\ nchunks' = 0
    /\ store_at_call' = chat_history'
    /\ yielded' = <<>>
    /\ contacted' = TRUE
    /\ pc' = "streaming"
    /\ result' = "streaming"

\* the call and everything up to the first chunk; the caller has already
\* fixed chat_history'
get_gemini_response(q, h) ==
    /\ question' = q
    /\ history' = h
    /\ full_response_text' = <<>>
    /\ nchunks' = 0
    /\ store_at_call' = chat_history'
    /\ IF model = "None"
       THEN /\ yielded' = <<NotInitialized(variant)>>
            /\ contacted' = FALSE
            /\ pc' = "idle"
            /\ result' = "no_model"
       ELSE /\ yielded' = <<>>
            /\ contacted' = TRUE
            /\ pc' = "streaming"
            /\ result' = "streaming"

StreamFrame ==
    UNCHANGED <<variant, model, current_trip, trip_stats, export_data,
                question, history, contacted, op, submitted, load_index,
                entry_stats, entry_len, store_at_call, at_save, shared>>

\* for chunk in response: a chunk that carries text
StreamChunk(chunk_text) ==
    /\ pc = "streaming"
    /\ nchunks < MaxChunks
    /\ nchunks' = nchunks + 1
    /\ full_response_text' = Accumulate(full_response_text, chunk_text)
    /\ yielded' = Append(yielded, chunk_text)
    /\ UNCHANGED <<chat_history, saved_itineraries, pc, result>>
    /\ StreamFrame

\* for chunk in response: a chunk without text is passed over
StreamSkip ==
    /\ pc = "streaming"
    /\ nchunks < MaxChunks
    /\ nchunks' = nchunks + 1
    /\ UNCHANGED <<chat_history, saved_itineraries, pc, result,
                   full_response_text, yielded>>
    /\ StreamFrame

\* the stream is exhausted: the turn is committed
StreamEnd ==
    /\ pc = "streaming"
    /\ chat_history' = CommitTurn(chat_history, question, full_response_text)
    /\ saved_itineraries' = AppendInPlace(saved_itineraries, shared, question,
                                          full_response_text)
    /\ pc' = "idle"
    /\ result' = "ok"
    /\ nchunks' = 0
    /\ UNCHANGED <<full_response_text, yielded>>
    /\ StreamFrame

\* fault: the except branch stores what was received so far
StreamRaiseCommitsPartial(e) ==
    /\ pc = "streaming"
    /\ yielded' = Append(yielded, Diagnostic(e))
    /\ chat_history' = CommitTurn(chat_history, question, full_response_text)
    /\ pc' = "idle"
    /\ result' = "error"
    /\ nchunks' = 0
    /\ UNCHANGED <<full_response_text, saved_itineraries>>
    /\ StreamFrame

\* fault: the except branch resets the store
StreamRaiseClearsStore(e) ==
    /\ pc = "streaming"
    /\ yielded' = Append(yielded, Diagnostic(e))
    /\ chat_history' = <<>>
    /\ pc' = "idle"
    /\ result' = "error"
    /\ nchunks' = 0
    /\ UNCHANGED <<full_response_text, saved_itineraries>>
    /\ StreamFrame

\* start_chat, send_message or the iteration raises
StreamRaise(e) ==
    /\ pc = "streaming"
    /\ yielded' = Append(yielded, Diagnostic(e))
    /\ pc' = "idle"
    /\ result' = "error"
    /\ nchunks' = 0
    /\ UNCHANGED <<chat_history, saved_itineraries, full_response_text>>
    /\ StreamFrame

(* ------------------------------ handlers ------------------------------- *)
\* not interests: an empty text area (variant 1), an empty selection (2)
EmptyInterests(f) ==
    IF variant = 1 THEN f.interests = "" ELSE f.interests = <<>>

\* st.session_state.current_trip = {...}
CurrentTrip(f) ==
    [destination |-> f.destination, duration |-> f.duration,
     interests |-> JoinComma(f.interests), style |-> f.style,
     budget |-> f.budget, travelers |-> f.travelers,
     accommodation |-> f.accommodation]

InList(x, l) == \E i \in 1..Len(l) : l[i] = x

\* trip_stats after the three statistics updates
UpdateStats(stats, f) ==
    [total_trips |-> stats.total_trips + 1,
     total_days |-> stats.total_days + f.duration,
     destinations |-> IF InList(f.destination, stats.destinations)
                      THEN stats.destinations
                      ELSE Append(stats.destinations, f.destination)]

\* fault: only the destination is validated
MissingDestination(f) == f.destination = ""

\* if not destination or not interests
MissingField(f) == f.destination = "" \/ EmptyInterests(f)

\* fault: the old conversation is kept when a new plan starts
KeptHistory == chat_history

\* st.session_state.chat_history = [] before a new plan
ClearedHistory == <<>>

\* if generate_plan: ... up to the first chunk of the reply
Generate(f) ==
    /\ NewRun("generate")
    /\ submitted' = f
    /\ load_index' = 0
    /\ export_data' = None
    /\ UNCHANGED <<saved_itineraries, at_save>>
    /\ IF MissingField(f)
       THEN /\ result' = "warning"
            /\ NoCall
            /\ UNCHANGED <<chat_history, current_trip, trip_stats, shared>>
       ELSE IF model = "None"
       THEN /\ result' = "config_error"
            /\ NoCall
            /\ UNCHANGED <<chat_history, current_trip, trip_stats, shared>>
       ELSE /\ (variant = 2) => (trip_stats.total_trips < MaxTrips)
            /\ chat_history' = ClearedHistory
            /\ shared' = {}
            /\ IF variant = 2
               THEN /\ current_trip' = CurrentTrip(f)
                    /\ trip_stats' = UpdateStats(trip_stats, f)
               ELSE UNCHANGED <<current_trip, trip_stats>>
            /\ get_gemini_response(
                   IF variant = 1 THEN ModelPrompt1(f) ELSE ModelPrompt2(f),
                   <<>>)

\* fault: the follow-up is sent without the conversation so far
SubmitWithoutHistory(user_query) ==
    /\ submitted' = None
    /\ load_index' = 0
    /\ export_data' = None
    /\ UNCHANGED <<chat_history, saved_itineraries, current_trip, trip_stats,
                   at_save, shared>>
    /\ IF chat_history = <<>>
       THEN /\ result' = "warning"
            /\ NoCall
       ELSE IF model = "None"
       THEN /\ result' = "config_error"
            /\ NoCall
       ELSE /\ Len(chat_history) + 2 <= MaxRecords
            /\ get_gemini_response(user_query, <<>>)

\* if user_query: ... up to the first chunk of the reply
Submit(user_query) ==
    /\ submitted' = None
    /\ load_index' = 0
    /\ export_data' = None
    /\ UNCHANGED <<chat_history, saved_itineraries, current_trip, trip_stats,
                   at_save, shared>>
    /\ IF chat_history = <<>>
       THEN /\ result' = "warning"
            /\ NoCall
       ELSE IF model = "None"
       THEN /\ result' = "config_error"
            /\ NoCall
       ELSE /\ Len(chat_history) + 2 <= MaxRecords
            /\ get_gemini_response(user_query, chat_history)

\* a message typed in st.chat_input
FollowUp(user_query) ==
    /\ NewRun("followup")
    /\ Submit(user_query)

\* a quick-action button: its action text becomes the user query
QuickAction(action_text) ==
    /\ variant = 2
    /\ NewRun("quick_action")
    /\ Submit(action_text)

\* the clear button
Clear ==
    /\ NewRun("clear")
    /\ chat_history' = <<>>
    /\ shared' = {}
    /\ result' = "cleared"
    /\ submitted' = None
    /\ load_index' = 0
    /\ export_data' = None
    /\ NoCall
    /\ UNCHANGED <<saved_itineraries, current_trip, trip_stats, at_save>>

\* the snapshot save_itinerary builds
save_itinerary(destination, duration, interests, style, timestamp) ==
    [destination |-> destination, duration |-> duration,
     interests |-> interests, style |-> style, timestamp |-> timestamp,
     chat_history |-> chat_history]

\* the save button
Save ==
    /\ variant = 2
    /\ NewRun("save")
    /\ submitted' = None
    /\ load_index' = 0
    /\ export_data' = None
    /\ NoCall
    /\ UNCHANGED <<chat_history, current_trip, trip_stats>>
    /\ IF current_trip # None
       THEN /\ Len(saved_itineraries) < MaxSaved
            /\ \E now \in Timestamps :
                 saved_itineraries' = Append(saved_itineraries,
                     save_itinerary(current_trip.destination,
                                    current_trip.duration,
                                    current_trip.interests,
                                    current_trip.style, now))
            /\ at_save' = Append(at_save, [trip |-> current_trip,
                                           store |-> chat_history])
            /\ shared' = shared \cup ListCopy({Len(saved_itineraries) + 1})
            /\ result' = "saved"
       ELSE /\ result' = "nothing"
            /\ UNCHANGED <<saved_itineraries, at_save, shared>>

\* the document export_chat_history serialises
export_chat_history(now) ==
    [trip_details |-> current_trip, chat_history |-> chat_history,
     exported_at |-> now]

\* the export button, offered while the store is not empty
Export ==
    /\ variant = 2
    /\ chat_history # <<>>
    /\ NewRun("export")
    /\ \E now \in Timestamps : export_data' = export_chat_history(now)
    /\ result' = "exported"
    /\ submitted' = None
    /\ load_index' = 0
    /\ NoCall
    /\ UNCHANGED <<chat_history, saved_itineraries, current_trip, trip_stats,
                   at_save, shared>>

\* fault: load restores the conversation and leaves no trip active
LoadedNoTrip(itinerary) == None

\* the trip load_saved_itinerary makes current
LoadedTrip(itinerary) ==
    [destination |-> itinerary.destination, duration |-> itinerary.duration,
     interests |-> itinerary.interests, style |-> itinerary.style]

\* load_saved_itinerary(index), index as Python indexes the list
load_saved_itinerary(index) ==
    /\ load_index' = index
    /\ submitted' = None
    /\ export_data' = None
    /\ NoCall
    /\ UNCHANGED <<saved_itineraries, trip_stats, at_save>>
    /\ IF PyIndex(saved_itineraries, index) = 0
       THEN /\ result' = "IndexError"
            /\ UNCHANGED <<chat_history, current_trip, shared>>
       ELSE LET itinerary ==
                    saved_itineraries[PyIndex(saved_itineraries, index)]
            IN  /\ chat_history' = itinerary.chat_history
                /\ shared' = ListCopy({PyIndex(saved_itineraries, index)})
                /\ current_trip' = LoadedTrip(itinerary)
                /\ result' = "loaded"

\* one load button per saved itinerary, idx from enumerate
Load(idx) ==
    /\ variant = 2
    /\ NewRun("load")
    /\ load_saved_itinerary(idx)

(* ------------------------- session specification ----------------------- *)
Next ==
    \/ \E f \in Forms(variant) : Generate(f)
    \/ \E q \in Queries : FollowUp(q)
    \/ \E a \in quick_actions : QuickAction(a)
    \/ Clear
    \/ Save
    \/ Export
    \/ \E idx \in 0..(Len(saved_itineraries) - 1) : Load(idx)
    \/ \E c \in ChunkTexts(Len(yielded) + 1) : StreamChunk(c)
    \/ StreamSkip
    \/ StreamEnd
    \/ \E e \in Errors : StreamRaise(e)

Spec == Init /\ [][Next]_vars

(* --------------------- helper-level specification ---------------------- *)
\* get_gemini_response called directly without a model: the call the
\* handlers never make (with a model, the calls are those of Next)
DirectCall(q, h) ==
    /\ model = "None"
    /\ NewRun("direct_call")
    /\ submitted' = None
    /\ load_index' = 0
    /\ export_data' = None
    /\ Len(chat_history) + 2 <= MaxRecords
    /\ UNCHANGED <<chat_history, saved_itineraries, current_trip, trip_stats,
                   at_save, shared>>
    /\ get_gemini_response(q, h)

\* load_saved_itinerary called directly with any integer
DirectLoad(index) ==
    /\ variant = 2
    /\ NewRun("direct_load")
    /\ load_saved_itinerary(index)

NextFn ==
    \/ Next
    \/ \E q \in Queries, h \in {<<>>, chat_history} : DirectCall(q, h)
    \/ \E index \in (-(Len(saved_itineraries) + 1))..Len(saved_itineraries) :
          DirectLoad(index)

SpecFn == Init /\ [][NextFn]_vars

TypeOK ==
    /\ pc \in {"idle", "streaming"}
    /\ nchunks \in 0..MaxChunks
    /\ Len(chat_history) <= MaxRecords

(* ------------------------------- claims -------------------------------- *)
IsPrefix(s, t) == Len(s) <= Len(t) /\ SubSeq(t, 1, Len(s)) = s

\* the fragments of a sequence, concatenated in order
RECURSIVE Flatten(_)
Flatten(fragments) ==
    IF fragments = <<>> THEN <<>>
    ELSE Head(fragments) \o Flatten(Tail(fragments))

IsDiagnostic(fragment) == \E e \in Errors : fragment = <<"Sorry, I encountered an error: ", e>>

\* C1: when a call of get_gemini_response is drained and the stream ends
\* without raising, the store is the store of call time followed by exactly
\* two records: the user record of the input message, then the model record
\* whose text is the yielded fragments concatenated in arrival order.
C1_CommitOnSuccess ==
    result = "ok" =>
        /\ pc = "idle"
        /\ Len(chat_history) = Len(store_at_call) + 2
        /\ SubSeq(chat_history, 1, Len(store_at_call)) = store_at_call
        /\ chat_history[Len(chat_history) - 1] =
               [role |-> "user", parts |-> <<question>>]
        /\ chat_history[Len(chat_history)] =
               [role |-> "model", parts |-> <<Flatten(yielded)>>]

\* a follow-up turn whose reply arrived in two fragments has been committed
C1_Witness ==
    /\ result = "ok"
    /\ Len(yielded) = 2
    /\ store_at_call # <<>>

\* C2: when the remote call raises after k fragments were yielded, exactly
\* one more fragment, the diagnostic, is yielded, the generator has ended,
\* and the store is what it was when the call was made, for every k.
C2_NoCommitOnError ==
    result = "error" =>
        /\ pc = "idle"
        /\ Len(yielded) >= 1
        /\ IsDiagnostic(yielded[Len(yielded)])
        /\ \A i \in 1..(Len(yielded) - 1) : ~IsDiagnostic(yielded[i])
        /\ Flatten(SubSeq(yielded, 1, Len(yielded) - 1)) = full_response_text
        /\ chat_history = store_at_call

\* a follow-up turn failed after two fragments had been yielded
C2_Witness ==
    /\ result = "error"
    /\ Len(yielded) = 3
    /\ store_at_call # <<>>

\* C3: a call of get_gemini_response without a model yields exactly one
\* fragment, ends, never reaches the remote endpoint and leaves the store
\* as it was.
C3_NoModel ==
    [][(model = "None" /\ op' = "direct_call") =>
          /\ Len(yielded') = 1
          /\ yielded'[1] = NotInitialized(variant)
          /\ pc' = "idle"
          /\ ~contacted'
          /\ chat_history' = chat_history]_vars

\* the call without a model has been made
C3_Witness ==
    /\ model = "None"
    /\ op = "direct_call"
    /\ result = "no_model"
    /\ Len(yielded) = 1

\* C4 as claimed: every step either extends the store at the tail or leaves
\* it empty.
C4_AppendOrResetOnly ==
    [][IsPrefix(chat_history, chat_history') \/ chat_history' = <<>>]_vars

\* C4 as amended: every step either extends the store at the tail, leaves it
\* empty, or is a load of a saved itinerary, which replaces the store by the
\* conversation captured in the chosen snapshot.
C4_AppendResetOrLoad ==
    [][\/ IsPrefix(chat_history, chat_history')
       \/ chat_history' = <<>>
       \/ /\ op' = "load"
          /\ result' = "loaded"
          /\ load_index' \in 0..(Len(saved_itineraries) - 1)
          /\ chat_history' =
                 saved_itineraries[load_index' + 1].chat_history]_vars

\* a load has replaced a four-record store by a saved two-record one
C4_Witness ==
    /\ op = "load"
    /\ result = "loaded"
    /\ entry_len = 4
    /\ Len(chat_history) = 2

\* C5 as claimed (variant 2): when a run has ended, the statistics differ
\* from those at its start only if it was a generation that succeeded, and
\* no counter is lower nor any destination missing.
C5_StatsOnlyOnSuccess ==
    (variant = 2 /\ pc = "idle") =>
        /\ trip_stats # entry_stats => (op = "generate" /\ result = "ok")
        /\ trip_stats.total_trips >= entry_stats.total_trips
        /\ trip_stats.total_days >= entry_stats.total_days
        /\ \A i \in 1..Len(entry_stats.destinations) :
               InList(entry_stats.destinations[i], trip_stats.destinations)

\* C6 as claimed (variant 2): after load(i) of a snapshot, the active trip
\* and the active store equal what they were when that snapshot was saved.
C6_LoadRestoresSave ==
    (op = "load" /\ result = "loaded") =>
        /\ current_trip = at_save[load_index + 1].trip
        /\ chat_history = at_save[load_index + 1].store

\* C7 as claimed: load_saved_itinerary(index) with index outside
\* 0 <= index < len fails with an index error and leaves store, trip and
\* snapshot list unchanged.
C7_OutOfBoundsFails ==
    [][(op' = "direct_load" /\
        ~(0 <= load_index' /\ load_index' < Len(saved_itineraries))) =>
          /\ result' = "IndexError"
          /\ UNCHANGED <<chat_history, current_trip, saved_itineraries>>]_vars

\* C7 as amended: load_saved_itinerary(index) with index >= len or
\* index < -len fails with an index error and leaves store, trip and snapshot
\* list unchanged; an index in -len..-1 loads the snapshot counted from the
\* end of the list.
C7_PythonIndexing ==
    [][op' = "direct_load" =>
          LET n == Len(saved_itineraries)
              i == load_index'
          IN  /\ saved_itineraries' = saved_itineraries
              /\ IF i >= n \/ i < -n
                 THEN /\ result' = "IndexError"
                      /\ UNCHANGED <<chat_history, current_trip>>
                 ELSE LET it == saved_itineraries[IF i < 0 THEN n + i + 1
                                                   ELSE i + 1]
                      IN  /\ result' = "loaded"
                          /\ chat_history' = it.chat_history
                          /\ current_trip'.destination = it.destination
                          /\ current_trip'.duration = it.duration]_vars

\* a load past the front of a non-empty snapshot list has failed
C7_Witness ==
    /\ op = "direct_load"
    /\ result = "IndexError"
    /\ load_index < 0
    /\ saved_itineraries # <<>>
    /\ chat_history # <<>>

PromptOf(f) == IF variant = 1 THEN ModelPrompt1(f) ELSE ModelPrompt2(f)

\* what C8 says of the first record, and of the number of records
C8_PromptRecord ==
    /\ Len(chat_history) = 2
    /\ chat_history[1].role = "user"
    /\ chat_history[1].parts = <<PromptOf(submitted)>>
    /\ Contains(chat_history[1].parts[1], <<submitted.destination>>)
    /\ Contains(chat_history[1].parts[1], IntToStr(submitted.duration))
    /\ chat_history[2].role = "model"

\* C8 as claimed: after a successful generation the store holds exactly the
\* prompt record and a model record whose text is not empty.
C8_ReplyNonEmpty ==
    (op = "generate" /\ result = "ok") =>
        /\ C8_PromptRecord
        /\ chat_history[2].parts[1] # <<>>

\* C8 as amended: after a successful generation, whatever the store held
\* before, it holds exactly the prompt record and a model record whose text
\* is the yielded fragments concatenated, which is empty exactly when no
\* non-empty fragment arrived.
C8_ReplyIsConcatenation ==
    (op = "generate" /\ result = "ok") =>
        /\ C8_PromptRecord
        /\ chat_history[2].parts = <<Flatten(yielded)>>
        /\ (chat_history[2].parts[1] = <<>>) <=>
               (\A i \in 1..Len(yielded) : yielded[i] = <<>>)

\* a generation started over a non-empty store has succeeded
C8_Witness ==
    /\ op = "generate"
    /\ result = "ok"
    /\ entry_len > 0
    /\ yielded # <<>>

\* C9: a follow-up or quick action reaches the gateway only with a non-empty
\* store and passes exactly that store as history; a generation passes the
\* empty history; the turn after a generation gets its two records and, on
\* success, leaves four.
C9_HistoryIsStore ==
    /\ (op \in {"followup", "quick_action"} /\ contacted) =>
           /\ store_at_call # <<>>
           /\ history = store_at_call
           /\ pc = "streaming" => chat_history = history
    /\ (op = "generate" /\ contacted) => history = <<>>
    /\ (op \in {"followup", "quick_action"} /\ result = "ok"
        /\ Len(store_at_call) = 2) =>
           /\ Len(history) = 2
           /\ Len(chat_history) = 4

\* the second turn of a conversation has been committed
C9_Witness ==
    /\ op \in {"followup", "quick_action"}
    /\ result = "ok"
    /\ Len(history) = 2
    /\ Len(chat_history) = 4

\* C10: a generate run with an empty destination, empty interests or no
\* model calls no gateway and changes neither the store nor, in variant 2,
\* the active trip, the statistics or the snapshot list.
C10_RejectedGenerateIsNoOp ==
    [][(pc = "idle" /\ op' = "generate" /\
        (\/ submitted'.destination = ""
         \/ submitted'.interests = (IF variant = 1 THEN "" ELSE <<>>)
         \/ model = "None")) =>
          /\ pc' = "idle"
          /\ ~contacted'
          /\ UNCHANGED <<chat_history, current_trip, trip_stats,
                         saved_itineraries>>]_vars

\* a generate run was refused for a missing field while a conversation,
\* and in variant 2 a trip, existed
C10_Witness ==
    /\ op = "generate"
    /\ result = "warning"
    /\ submitted.destination # ""
    /\ chat_history # <<>>

\* a store of even length whose records go user, model, user, model, ...
Alternates(store) ==
    /\ Len(store) % 2 = 0
    /\ \A i \in 1..Len(store) :
           store[i].role = (IF i % 2 = 1 THEN "user" ELSE "model")

\* C11: in every reachable state of either variant the store has even
\* length and alternates user, model, ..., and so does the conversation
\* captured in every saved snapshot.
C11_StoreAlternates ==
    /\ Alternates(chat_history)
    /\ \A i \in 1..Len(saved_itineraries) :
           Alternates(saved_itineraries[i].chat_history)

\* two turns are stored while a snapshot holds a conversation
C11_Witness ==
    /\ Len(chat_history) = 4
    /\ saved_itineraries # <<>>
    /\ saved_itineraries[1].chat_history # <<>>

\* the four trip fields and the conversation that save_itinerary captures
SnapshotOf(trip, store, entry) ==
    /\ entry.destination = trip.destination
    /\ entry.duration = trip.duration
    /\ entry.interests = trip.interests
    /\ entry.style = trip.style
    /\ entry.chat_history = store

C13_FailedTurn ==
    /\ (op \in {"followup", "quick_action"} /\ result = "error") =>
           /\ chat_history = store_at_call
           /\ Len(chat_history) = entry_len
           /\ chat_history = history
    /\ (op = "generate" /\ result = "error") =>
           /\ ~MissingField(submitted)
           /\ chat_history = <<>>
           /\ (variant = 2) => (current_trip = CurrentTrip(submitted))

\* a validated generation failed while a conversation was on display
C13_Witness ==
    /\ op = "generate"
    /\ result = "error"
    /\ entry_len > 0
    /\ contacted

\* the opening of the variant-2 generation prompt for a trip
PromptHead(trip) ==
    <<"Plan a comprehensive ">> \o IntToStr(trip.duration) \o
    <<"-day trip to ", trip.destination, " for ">>

\* a non-empty store comes with an active trip, and opens with the user
\* record of the generation prompt for that trip's duration and destination
C14_StoreHasTrip ==
    (variant = 2 /\ chat_history # <<>>) =>
        /\ current_trip # None
        /\ chat_history[1].role = "user"
        /\ IsPrefix(PromptHead(current_trip), chat_history[1].parts[1])

====
